---- MODULE Spec2Model ----
(***************************************************************************)
(* Model of pkg/manager/member/tidb_discovery_manager.go: the discovery    *)
(* manager's Reconcile, its builders (getDiscoveryMeta,                    *)
(* getTidbDiscoveryDeployment, getTidbDiscoveryService) and the typed      *)
(* create-or-update collaborator it drives.                                *)
(***************************************************************************)
EXTENDS Naturals, Integers, Sequences, FiniteSets, TLC

VARIABLES
    obj,        \* obj[w]: the cluster object worker w reconciles
    pc,         \* pc[w]: position of worker w inside Reconcile
    result,     \* result[w]: what the last finished Reconcile call returned
    attempted,  \* attempted[w]: apply operations issued in the current call, in order
    outcome,    \* outcome[w]: success flag of each apply of the current call, in order
    submitted,  \* submitted[w]: kind -> desired object handed to the collaborator in the current call
    prev,       \* prev[w]: kind -> desired object handed to the collaborator in earlier calls
    deploy,     \* deploy[w]: the Deployment returned by CreateOrUpdateDeployment (<<>> if none)
    store,      \* persisted resources: key -> [owner, labels]
    written,    \* written[w]: keys worker w has created or updated
    bobj,       \* builder harness: the cluster object under construction
    bmeta,      \* builder harness: result of getDiscoveryMeta (<<>> if not run)
    bdep,       \* builder harness: result of getTidbDiscoveryDeployment (<<>> if not run)
    bsvc        \* builder harness: result of getTidbDiscoveryService (<<>> if not run)

vars == <<obj, pc, result, attempted, outcome, submitted, prev, deploy, store, written,
          bobj, bmeta, bdep, bsvc>>
mainVars == <<obj, pc, result, attempted, outcome, submitted, prev, deploy, store, written>>
buildVars == <<bobj, bmeta, bdep, bsvc>>

(***************************************************************************)
(* Bounds                                                                  *)
(***************************************************************************)
MaxBaseContainers == 1
MaxAdditionalContainers == 1

Workers == {"w1", "w2"}

(***************************************************************************)
(* Program constants                                                       *)
(***************************************************************************)
PdTlsCertPath == "/var/lib/pd-tls"
DiscoveryPort == 10261
ProxyPort == 10262

Kinds == <<"Role", "ServiceAccount", "RoleBinding", "Deployment", "Service">>
KindSet == {Kinds[i] : i \in 1..Len(Kinds)}

EmptyMap == [k \in {} |-> ""]

(***************************************************************************)
(* Collaborators outside the file                                          *)
(***************************************************************************)
\* controller.DiscoveryMemberName
DiscoveryMemberName == [clusterName \in STRING |-> clusterName \o "-discovery"]

\* cluster.GetInstanceName
GetInstanceName(o) == o.name

\* controller.GetOwnerRef / controller.GetDMOwnerRef
GetOwnerRef(o) == [kind |-> "TidbCluster", name |-> o.name, controller |-> TRUE]
GetDMOwnerRef(o) == [kind |-> "DMCluster", name |-> o.name, controller |-> TRUE]

\* label.New().Instance(i).Discovery() / label.NewDM().Instance(i).Discovery()
DiscoveryLabel(nameVal, instanceName) ==
    [k \in {"app.kubernetes.io/name", "app.kubernetes.io/managed-by",
            "app.kubernetes.io/instance", "app.kubernetes.io/component"} |->
        CASE k = "app.kubernetes.io/name" -> nameVal
          [] k = "app.kubernetes.io/managed-by" -> "tidb-operator"
          [] k = "app.kubernetes.io/instance" -> instanceName
          [] OTHER -> "discovery"]

\* tc.AcrossK8s(), tc.IsTLSClusterEnabled(), tc.WithoutLocalPD()
AcrossK8s(o) == o.acrossK8s
IsTLSClusterEnabled(o) == o.tls
WithoutLocalPD(o) == ~o.hasPD

\* util.ClusterTLSSecretName
ClusterTLSSecretName(tcName, component) == tcName \o "-" \o component \o "-cluster-secret"

\* util.CombineStringMap: b's value is kept on a key collision
CombineStringMap(a, b) ==
    [k \in DOMAIN a \cup DOMAIN b |-> IF k \in DOMAIN b THEN b[k] ELSE a[k]]

\* util.AppendEnv: an entry of b replaces the entry of a with the same name, else is appended
RECURSIVE AppendEnv(_, _)
AppendEnv(a, b) ==
    IF b = <<>> THEN a
    ELSE LET e == Head(b)
             hit == {i \in 1..Len(a) : a[i].name = e.name}
             a1 == IF hit = {} THEN Append(a, e)
                   ELSE [i \in 1..Len(a) |-> IF i \in hit THEN e ELSE a[i]]
         IN AppendEnv(a1, Tail(b))

\* MergePatchContainers: deep merge by container name; an override of unknown shape is an error
PatchContainer(c, p) ==
    [c EXCEPT !.image = IF p.image = "" THEN c.image ELSE p.image]

AsContainer(p) ==
    [name |-> p.name, image |-> p.image, resources |-> "", command |-> <<>>,
     env |-> <<>>, volumeMounts |-> <<>>, ports |-> <<>>]

MergePatchContainers(base, patches) ==
    LET bad == \E i \in 1..Len(patches) : patches[i].shape = "bad"
        patchOf(c) == {i \in 1..Len(patches) : patches[i].name = c.name}
        patched == [i \in 1..Len(base) |->
                      IF patchOf(base[i]) = {} THEN base[i]
                      ELSE PatchContainer(base[i],
                               patches[CHOOSE j \in patchOf(base[i]) :
                                          \A j2 \in patchOf(base[i]) : j2 <= j])]
        fresh == SelectSeq(patches,
                     LAMBDA p : \A i \in 1..Len(base) : base[i].name # p.name)
        added == [i \in 1..Len(fresh) |-> AsContainer(fresh[i])]
    IN [err |-> bad, containers |-> IF bad THEN <<>> ELSE patched \o added]

\* baseSpec.BuildPodSpec(): the pod-spec skeleton of the component
BuildPodSpec(o) ==
    [containers |-> [i \in 1..Len(o.baseContainers) |->
                        [name |-> o.baseContainers[i], image |-> "base", resources |-> "",
                         command |-> <<>>, env |-> <<>>, volumeMounts |-> <<>>, ports |-> <<>>]],
     initContainers |-> <<>>,
     volumes |-> <<>>,
     serviceAccountName |-> "",
     serialisable |-> o.serialisable]

\* json.Marshal of a PodSpec: fields in declaration order, empty ones omitted
Marshal(ps) ==
    LET field(n, v) == IF v = <<>> THEN <<>> ELSE << <<n, v>> >>
    IN [err |-> ~ps.serialisable,
        bytes |-> field("volumes", ps.volumes)
                  \o field("initContainers", ps.initContainers)
                  \o field("containers", ps.containers)
                  \o << <<"serviceAccountName", ps.serviceAccountName>> >>]

\* SetServiceWhenPreferIPv6
SetServiceWhenPreferIPv6(svc) ==
    [svc EXCEPT !.ipFamilyPolicy = "PreferDualStack", !.ipFamilies = <<"IPv6", "IPv4">>]

(***************************************************************************)
(* Errors                                                                  *)
(***************************************************************************)
NoResult == [class |-> "none", msg |-> ""]
Nil == [class |-> "nil", msg |-> ""]
\* fmt.Errorf
Errorf(msg) == [class |-> "plain", msg |-> msg]
\* controller.RequeueErrorf
RequeueErrorf(msg) == [class |-> "requeue", msg |-> msg]

(***************************************************************************)
(* Cluster objects                                                         *)
(***************************************************************************)
ClusterObject(kind, name, hasPD, across, tls, ipv6, labels, baseCs, addCs, env, mounts, ser) ==
    [kind |-> kind, name |-> name, namespace |-> "ns", hasPD |-> hasPD,
     acrossK8s |-> across, tls |-> tls, preferIPv6 |-> ipv6, labels |-> labels,
     baseContainers |-> baseCs, additionalContainers |-> addCs, env |-> env,
     additionalVolumeMounts |-> mounts, serialisable |-> ser,
     timezone |-> "UTC", resources |-> "res", imagePullPolicy |-> "IfNotPresent"]

\* a nil client.Object: it carries no metav1.Object
NilObject ==
    ClusterObject("nil", "", FALSE, FALSE, FALSE, FALSE, EmptyMap, <<>>, <<>>, <<>>, <<>>, TRUE)

IsMetaObject(o) == o.kind # "nil"

Names == {"a", "a-dm"}

BaseLabelChoices ==
    {EmptyMap,
     "team" :> "db",
     "app.kubernetes.io/component" :> "custom"}

SeqsUpTo(S, n) == UNION {[1..k -> S] : k \in 0..n}

BaseContainerChoices == SeqsUpTo({"sidecar"}, MaxBaseContainers)

Patches ==
    {[name |-> "discovery", shape |-> "ok", image |-> "patched"],
     [name |-> "sidecar", shape |-> "ok", image |-> ""],
     [name |-> "extra", shape |-> "ok", image |-> "extra"],
     [name |-> "extra", shape |-> "bad", image |-> "extra"]}

AdditionalContainerChoices == SeqsUpTo(Patches, MaxAdditionalContainers)

EnvChoices == {<<>>, <<[name |-> "TZ", value |-> "Asia/Shanghai"], [name |-> "EXTRA", value |-> "1"]>>}

MountChoices == {<<>>, <<[name |-> "extra", readOnly |-> FALSE, mountPath |-> "/extra"]>>}

\* every TidbCluster and DMCluster the builders are exercised on
BuildObjects ==
    {ClusterObject(kind, name, hasPD, FALSE, tls, ipv6, labels, baseCs, addCs, env, mounts, ser) :
        kind \in {"TidbCluster", "DMCluster"}, name \in Names, hasPD \in BOOLEAN,
        tls \in BOOLEAN, ipv6 \in BOOLEAN, labels \in BaseLabelChoices,
        baseCs \in BaseContainerChoices, addCs \in AdditionalContainerChoices,
        env \in EnvChoices, mounts \in MountChoices, ser \in BOOLEAN}

Plain(kind, name, hasPD, across) ==
    ClusterObject(kind, name, hasPD, across, FALSE, FALSE, EmptyMap, <<>>, <<>>, <<>>, <<>>, TRUE)

Decorated(kind, name) ==
    ClusterObject(kind, name, TRUE, FALSE, TRUE, TRUE, "team" :> "db", <<>>,
                  <<[name |-> "extra", shape |-> "ok", image |-> "extra"]>>,
                  <<[name |-> "EXTRA", value |-> "1"]>>, <<>>, TRUE)

BadOverride(kind, name) ==
    ClusterObject(kind, name, TRUE, FALSE, FALSE, FALSE, EmptyMap, <<>>,
                  <<[name |-> "extra", shape |-> "bad", image |-> "extra"]>>, <<>>, <<>>, TRUE)

Unserialisable(kind, name) ==
    ClusterObject(kind, name, TRUE, FALSE, FALSE, FALSE, EmptyMap, <<>>, <<>>, <<>>, <<>>, FALSE)

\* the objects the control loop hands to Reconcile
ReconcileObjects ==
    {NilObject, Plain("Backup", "a", FALSE, FALSE)}
    \cup {Plain("TidbCluster", n, pd, ac) : n \in Names, pd \in BOOLEAN, ac \in BOOLEAN}
    \cup {Plain("DMCluster", n, FALSE, FALSE) : n \in Names}
    \cup {Decorated(k, "a") : k \in {"TidbCluster", "DMCluster"}}
    \cup {BadOverride(k, "a") : k \in {"TidbCluster", "DMCluster"}}
    \cup {Unserialisable("TidbCluster", "a")}

Identity(o) == <<o.kind, o.namespace, o.name>>

\* what the two workers of the control loop are given: one cluster object and
\* an idle peer, or two distinct cluster objects of the same namespace
SingleAssignments ==
    {[w \in Workers |-> IF w = "w1" THEN o ELSE NilObject] : o \in ReconcileObjects}

Assignments ==
    SingleAssignments
    \cup {[w \in Workers |-> IF w = "w1" THEN Plain("TidbCluster", n, TRUE, FALSE)
                                         ELSE Plain("DMCluster", "a", FALSE, FALSE)] :
             n \in Names}

(***************************************************************************)
(* getDiscoveryMeta                                                        *)
(***************************************************************************)
DiscoveryNameNoSuffix(o) == o.name

\* the name handed to nameFunc
DiscoveryName(o) ==
    IF o.kind = "TidbCluster" THEN o.name ELSE o.name \o "-dm"

getDiscoveryMeta(o, nameFunc) ==
    LET instanceName == IF o.kind = "TidbCluster" THEN GetInstanceName(o)
                        ELSE GetInstanceName(o) \o "-dm"
        ownerRef == IF o.kind = "TidbCluster" THEN GetOwnerRef(o) ELSE GetDMOwnerRef(o)
        discoveryLabel == IF o.kind = "TidbCluster"
                          THEN DiscoveryLabel("tidb-cluster", instanceName)
                          ELSE DiscoveryLabel("dm-cluster", instanceName)
    IN [meta |-> [name |-> nameFunc[DiscoveryName(o)],
                  namespace |-> o.namespace,
                  labels |-> discoveryLabel,
                  annotations |-> EmptyMap,
                  ownerReferences |-> <<ownerRef>>],
        l |-> discoveryLabel]

(***************************************************************************)
(* RBAC objects built inside Reconcile                                     *)
(***************************************************************************)
clusterPolicyRule(o) ==
    [apiGroups |-> <<"pingcap.com">>,
     resources |-> <<IF o.kind = "TidbCluster" THEN "tidbclusters" ELSE "dmclusters">>,
     resourceNames |-> <<o.name>>,
     verbs |-> <<"get">>]

DesiredRole(o) ==
    [meta |-> getDiscoveryMeta(o, DiscoveryMemberName).meta,
     rules |-> <<clusterPolicyRule(o),
                 [apiGroups |-> <<"">>, resources |-> <<"secrets">>,
                  resourceNames |-> <<>>, verbs |-> <<"get", "list", "watch">>]>>]

DesiredServiceAccount(o) ==
    [meta |-> getDiscoveryMeta(o, DiscoveryMemberName).meta]

DesiredRoleBinding(o) ==
    LET meta == getDiscoveryMeta(o, DiscoveryMemberName).meta
    IN [meta |-> meta,
        subjects |-> <<[kind |-> "ServiceAccount", name |-> meta.name]>>,
        roleRef |-> [kind |-> "Role", name |-> meta.name,
                     apiGroup |-> "rbac.authorization.k8s.io"]]

\* preferIPv6 is only read from a TidbCluster
PreferIPv6(o) == IF o.kind = "TidbCluster" THEN o.preferIPv6 ELSE FALSE


(***************************************************************************)
(* getTidbDiscoveryDeployment                                              *)
(***************************************************************************)
\* baseSpec.AdditionalVolumes(): one volume behind every additional mount
AdditionalVolumes(o) ==
    [i \in 1..Len(o.additionalVolumeMounts) |->
        [name |-> o.additionalVolumeMounts[i].name, secretName |-> ""]]

\* baseSpec.InitContainers(), baseSpec.Annotations()
InitContainers(o) == <<>>
Annotations(o) == EmptyMap

LastAppliedPodTemplate == "pingcap.com/last-applied-podtemplate"

DeploymentKey(o) ==
    [kind |-> "Deployment", namespace |-> o.namespace,
     name |-> DiscoveryMemberName[DiscoveryName(o)]]

podLabelsFromStore(o) ==
    IF DeploymentKey(o) \in DOMAIN store
    THEN store[DeploymentKey(o)].labels
    ELSE CombineStringMap(getDiscoveryMeta(o, DiscoveryMemberName).l, o.labels)

podLabels(o) ==
    CombineStringMap(getDiscoveryMeta(o, DiscoveryMemberName).l, o.labels)

discoveryContainer(o) ==
    [name |-> "discovery",
     resources |-> o.resources,
     command |-> <<"/usr/local/bin/tidb-discovery">>,
     image |-> "pingcap/tidb-operator",
     env |-> AppendEnv(<<[name |-> "MY_POD_NAMESPACE", value |-> "fieldRef:metadata.namespace"],
                         [name |-> "TZ", value |-> o.timezone],
                         [name |-> "TC_NAME", value |-> o.name]>>,
                       o.env),
     volumeMounts |-> o.additionalVolumeMounts,
     ports |-> <<[name |-> "discovery", protocol |-> "TCP", containerPort |-> DiscoveryPort],
                 [name |-> "proxy", protocol |-> "TCP", containerPort |-> ProxyPort]>>]

\* the condition under which the PD TLS material is wired in
TLSWired(o) ==
    o.kind = "TidbCluster" /\ IsTLSClusterEnabled(o) /\ ~WithoutLocalPD(o)

\* podSpec.Containers[0] gets the TLS mount and environment entry
withTLS(podSpec, o) ==
    [podSpec EXCEPT
        !.volumes = Append(@, [name |-> "pd-tls",
                               secretName |-> ClusterTLSSecretName(o.name, "pd")]),
        !.containers[1].volumeMounts =
            Append(@, [name |-> "pd-tls", readOnly |-> TRUE, mountPath |-> PdTlsCertPath]),
        !.containers[1].env = Append(@, [name |-> "TC_TLS_ENABLED", value |-> "true"])]

NoDeployment == <<>>

getTidbDiscoveryDeployment(o) ==
    LET podSpec0 == BuildPodSpec(o)
        ml == getDiscoveryMeta(o, DiscoveryMemberName)
        appended == Append(podSpec0.containers, discoveryContainer(o))
        merged == MergePatchContainers(appended, o.additionalContainers)
        podSpec1 == [podSpec0 EXCEPT
                        !.containers = merged.containers,
                        !.initContainers = @ \o InitContainers(o),
                        !.serviceAccountName = ml.meta.name,
                        !.volumes = @ \o AdditionalVolumes(o)]
        podSpec == IF TLSWired(o) THEN withTLS(podSpec1, o) ELSE podSpec1
        b == Marshal(podSpec)
        d == [meta |-> [ml.meta EXCEPT
                           !.annotations = (LastAppliedPodTemplate :> b.bytes) @@ @],
              spec |-> [strategy |-> "Recreate",
                        replicas |-> 1,
                        selector |-> ml.l,
                        template |-> [labels |-> podLabels(o),
                                      annotations |-> Annotations(o),
                                      spec |-> podSpec]]]
    IN IF merged.err THEN [err |-> "merge", d |-> NoDeployment]
       ELSE IF b.err THEN [err |-> "marshal", d |-> NoDeployment]
       ELSE [err |-> "none", d |-> d]

(***************************************************************************)
(* getTidbDiscoveryService                                                 *)
(***************************************************************************)
ServiceSelectorFromDesired(o, dep) ==
    getTidbDiscoveryDeployment(o).d.spec.template.labels

ServiceSelector(o, dep) == dep.spec.template.labels

getTidbDiscoveryService(o, dep, preferIPv6) ==
    LET svc == [meta |-> getDiscoveryMeta(o, DiscoveryMemberName).meta,
                spec |-> [type |-> "ClusterIP",
                          ports |-> <<[name |-> "discovery", port |-> DiscoveryPort,
                                       targetPort |-> DiscoveryPort, protocol |-> "TCP"],
                                      [name |-> "proxy", port |-> ProxyPort,
                                       targetPort |-> ProxyPort, protocol |-> "TCP"]>>,
                          selector |-> ServiceSelector(o, dep)],
                ipFamilyPolicy |-> "",
                ipFamilies |-> <<>>]
    IN IF preferIPv6 THEN SetServiceWhenPreferIPv6(svc) ELSE svc

(***************************************************************************)
(* The create-or-update collaborator (deps.TypedControl)                   *)
(***************************************************************************)
ResourceKey(kind, desired) ==
    [kind |-> kind, namespace |-> desired.meta.namespace, name |-> desired.meta.name]

\* what the collaborator may hand back for a Deployment: the request, or the
\* request with a label injected into the pod template
AppliedDeployments(d) ==
    {d, [d EXCEPT !.spec.template.labels = ("injected" :> "x") @@ @]}

Returned(kind, desired) ==
    IF kind = "Deployment" THEN AppliedDeployments(desired) ELSE {desired}

Persisted(kind, o, applied) ==
    [owner |-> Identity(o),
     labels |-> IF kind = "Deployment" THEN applied.spec.template.labels ELSE EmptyMap]


(***************************************************************************)
(* Reconcile                                                               *)
(***************************************************************************)
EmptyFn == [k \in {} |-> <<>>]

NotApplicableNoPDOnly(o) == o.kind = "TidbCluster" /\ ~o.hasPD

\* a TidbCluster without PD that is not across Kubernetes needs no discovery
NotApplicable(o) == o.kind = "TidbCluster" /\ ~o.hasPD /\ ~AcrossK8s(o)

Supported(o) == o.kind \in {"TidbCluster", "DMCluster"}

StageOrderSwapped == <<"sa", "role", "rb", "build", "deploy", "svc">>

\* the steps of Reconcile after the dispatch, in program order
StageOrder == <<"role", "sa", "rb", "build", "deploy", "svc">>

StageAfter(stage) ==
    LET i == CHOOSE j \in 1..Len(StageOrder) : StageOrder[j] = stage
    IN IF i = Len(StageOrder) THEN "idle" ELSE StageOrder[i + 1]

ErrNotMetaObject == Errorf("is not a metav1.Object")
ErrRole == RequeueErrorf("error creating or updating discovery role")
ErrServiceAccount == RequeueErrorf("error creating or updating discovery serviceaccount")
ErrRoleBinding == RequeueErrorf("error creating or updating discovery rolebinding")
ErrGeneratingUnwrapped == Errorf("failed to merge containers spec for Discovery")
ErrGenerating == RequeueErrorf("error generating discovery deployment")
ErrDeployment == RequeueErrorf("error creating or updating discovery service")
ErrServiceUnwrapped == Errorf("error creating or updating discovery service")
ErrService == RequeueErrorf("error creating or updating discovery service")

\* entry of Reconcile up to the first apply: metadata check and variant dispatch
Start(w) ==
    /\ pc[w] = "idle"
    /\ prev' = [prev EXCEPT ![w] = submitted[w] @@ @]
    /\ attempted' = [attempted EXCEPT ![w] = <<>>]
    /\ outcome' = [outcome EXCEPT ![w] = <<>>]
    /\ submitted' = [submitted EXCEPT ![w] = EmptyFn]
    /\ deploy' = [deploy EXCEPT ![w] = <<>>]
    /\ IF ~IsMetaObject(obj[w])
       THEN /\ result' = [result EXCEPT ![w] = ErrNotMetaObject]
            /\ pc' = pc
       ELSE IF NotApplicable(obj[w]) \/ ~Supported(obj[w])
       THEN /\ result' = [result EXCEPT ![w] = Nil]
            /\ pc' = pc
       ELSE /\ result' = [result EXCEPT ![w] = NoResult]
            /\ pc' = [pc EXCEPT ![w] = StageOrder[1]]
    /\ UNCHANGED <<obj, store, written>>
    /\ UNCHANGED buildVars

\* one call of the collaborator for resource kind `kind` and its error check
Apply(w, stage, kind, desired, err, ok) ==
    /\ pc[w] = stage
    /\ attempted' = [attempted EXCEPT ![w] = Append(@, kind)]
    /\ outcome' = [outcome EXCEPT ![w] = Append(@, ok)]
    /\ submitted' = [submitted EXCEPT ![w] = (kind :> desired) @@ @]
    /\ IF ok
       THEN \E applied \in Returned(kind, desired) :
              /\ store' = (ResourceKey(kind, desired) :> Persisted(kind, obj[w], applied)) @@ store
              /\ written' = [written EXCEPT ![w] = @ \cup {ResourceKey(kind, desired)}]
              /\ deploy' = [deploy EXCEPT ![w] = IF kind = "Deployment" THEN <<applied>> ELSE @]
              /\ pc' = [pc EXCEPT ![w] = StageAfter(stage)]
              /\ result' = [result EXCEPT ![w] = IF StageAfter(stage) = "idle" THEN Nil ELSE @]
       ELSE /\ result' = [result EXCEPT ![w] = err]
            /\ pc' = [pc EXCEPT ![w] = "idle"]
            /\ UNCHANGED <<store, written, deploy>>
    /\ UNCHANGED <<obj, prev>>
    /\ UNCHANGED buildVars

CreateOrUpdateRole(w, ok) ==
    Apply(w, "role", "Role", DesiredRole(obj[w]), ErrRole, ok)

CreateOrUpdateServiceAccount(w, ok) ==
    Apply(w, "sa", "ServiceAccount", DesiredServiceAccount(obj[w]), ErrServiceAccount, ok)

CreateOrUpdateRoleBinding(w, ok) ==
    Apply(w, "rb", "RoleBinding", DesiredRoleBinding(obj[w]), ErrRoleBinding, ok)

\* d, err := m.getTidbDiscoveryDeployment(metaObj) and its error check
Generate(w) ==
    /\ pc[w] = "build"
    /\ IF getTidbDiscoveryDeployment(obj[w]).err # "none"
       THEN /\ result' = [result EXCEPT ![w] = ErrGenerating]
            /\ pc' = [pc EXCEPT ![w] = "idle"]
       ELSE /\ pc' = [pc EXCEPT ![w] = StageAfter("build")]
            /\ UNCHANGED result
    /\ UNCHANGED <<obj, attempted, outcome, submitted, prev, deploy, store, written>>
    /\ UNCHANGED buildVars

CreateOrUpdateDeployment(w, ok) ==
    /\ getTidbDiscoveryDeployment(obj[w]).err = "none"
    /\ Apply(w, "deploy", "Deployment", getTidbDiscoveryDeployment(obj[w]).d, ErrDeployment, ok)

CreateOrUpdateService(w, ok) ==
    /\ deploy[w] # <<>>
    /\ Apply(w, "svc", "Service",
             getTidbDiscoveryService(obj[w], deploy[w][1], PreferIPv6(obj[w])), ErrService, ok)

\* no Reconcile call has been made yet
NothingReconciled ==
    /\ pc = [w \in Workers |-> "idle"]
    /\ result = [w \in Workers |-> NoResult]
    /\ attempted = [w \in Workers |-> <<>>]
    /\ outcome = [w \in Workers |-> <<>>]
    /\ submitted = [w \in Workers |-> EmptyFn]
    /\ prev = [w \in Workers |-> EmptyFn]
    /\ deploy = [w \in Workers |-> <<>>]
    /\ store = EmptyFn
    /\ written = [w \in Workers |-> {}]

\* no builder has been run yet
NothingBuilt ==
    /\ bmeta = <<>>
    /\ bdep = <<>>
    /\ bsvc = <<>>

Init ==
    /\ obj \in Assignments
    /\ NothingReconciled
    /\ bobj = NilObject
    /\ NothingBuilt

Next ==
    \E w \in Workers :
        \/ Start(w)
        \/ \E ok \in BOOLEAN : CreateOrUpdateRole(w, ok)
        \/ \E ok \in BOOLEAN : CreateOrUpdateServiceAccount(w, ok)
        \/ \E ok \in BOOLEAN : CreateOrUpdateRoleBinding(w, ok)
        \/ Generate(w)
        \/ \E ok \in BOOLEAN : CreateOrUpdateDeployment(w, ok)
        \/ \E ok \in BOOLEAN : CreateOrUpdateService(w, ok)

Spec == Init /\ [][Next]_vars

\* the control loop re-invokes Reconcile after a requeue error, every started
\* call runs on, and every apply operation eventually succeeds
Retry(w) == result[w].class \in {"none", "requeue"} /\ Start(w)

Fairness ==
    \A w \in Workers :
        /\ WF_vars(Retry(w))
        /\ WF_vars(Generate(w))
        /\ SF_vars(CreateOrUpdateRole(w, TRUE))
        /\ SF_vars(CreateOrUpdateServiceAccount(w, TRUE))
        /\ SF_vars(CreateOrUpdateRoleBinding(w, TRUE))
        /\ SF_vars(CreateOrUpdateDeployment(w, TRUE))
        /\ SF_vars(CreateOrUpdateService(w, TRUE))

\* one cluster object under a control loop that keeps retrying
FairInit ==
    /\ obj \in SingleAssignments
    /\ NothingReconciled
    /\ bobj = NilObject
    /\ NothingBuilt

FairSpec == FairInit /\ [][Next]_vars /\ Fairness


(***************************************************************************)
(* The builders on their own, over every TidbCluster and DMCluster         *)
(***************************************************************************)
DeriveMeta ==
    /\ bmeta = <<>>
    /\ bmeta' = <<getDiscoveryMeta(bobj, DiscoveryMemberName)>>
    /\ UNCHANGED <<bobj, bdep, bsvc>>
    /\ UNCHANGED mainVars

BuildDeployment ==
    /\ bmeta # <<>>
    /\ bdep = <<>>
    /\ bdep' = <<getTidbDiscoveryDeployment(bobj)>>
    /\ UNCHANGED <<bobj, bmeta, bsvc>>
    /\ UNCHANGED mainVars

BuildService ==
    /\ bdep # <<>>
    /\ bdep[1].err = "none"
    /\ bsvc = <<>>
    /\ \E applied \in AppliedDeployments(bdep[1].d) :
          bsvc' = <<[applied |-> applied,
                     svc |-> getTidbDiscoveryService(bobj, applied, PreferIPv6(bobj))]>>
    /\ UNCHANGED <<bobj, bmeta, bdep>>
    /\ UNCHANGED mainVars

BuildInit ==
    /\ obj = [w \in Workers |-> NilObject]
    /\ NothingReconciled
    /\ bobj \in BuildObjects
    /\ NothingBuilt

BuildNext == DeriveMeta \/ BuildDeployment \/ BuildService

BuildSpec == BuildInit /\ [][BuildNext]_vars


(***************************************************************************)
(* Properties                                                              *)
(***************************************************************************)
Finished(w) == pc[w] = "idle" /\ result[w].class # "none"

NoDiscoveryNeeded(o) == o.kind = "TidbCluster" /\ ~o.hasPD /\ ~o.acrossK8s

KnownVariant(o) == o.kind \in {"TidbCluster", "DMCluster"}

ConstructionFails(o) ==
    \/ \E i \in 1..Len(o.additionalContainers) : o.additionalContainers[i].shape = "bad"
    \/ ~o.serialisable

ExpectedKey(o, kind) ==
    [kind |-> kind, namespace |-> o.namespace,
     name |-> (IF o.kind = "DMCluster" THEN o.name \o "-dm" ELSE o.name) \o "-discovery"]

\* C1: within one Reconcile call the applies are issued in the order Role,
\* ServiceAccount, RoleBinding, Deployment, Service; an apply is issued only
\* after every earlier apply of the call succeeded, and a failed apply is the
\* last one of its call, which then ends with an error.
C1_ApplyOrder ==
    \A w \in Workers :
        /\ Len(attempted[w]) <= Len(Kinds)
        /\ \A i \in 1..Len(attempted[w]) :
              /\ attempted[w][i] = Kinds[i]
              /\ (i < Len(attempted[w]) => outcome[w][i])
              /\ (~outcome[w][i] => pc[w] = "idle" /\ result[w].class \notin {"none", "nil"})

C1_Witness ==
    \E w \in Workers :
        /\ attempted[w] = <<"Role", "ServiceAccount", "RoleBinding">>
        /\ outcome[w] = <<TRUE, TRUE, FALSE>>
        /\ pc[w] = "idle"

\* C2 (as stated): a finished Reconcile call returned success with zero
\* applies when the object is a TidbCluster without PD and not across
\* Kubernetes, or is of neither known variant; for every other object the
\* call attempted at least the Role apply.
C2_Original ==
    \A w \in Workers :
        Finished(w) =>
            IF NoDiscoveryNeeded(obj[w]) \/ ~KnownVariant(obj[w])
            THEN result[w] = Nil /\ attempted[w] = <<>> /\ DOMAIN submitted[w] = {}
            ELSE attempted[w] # <<>> /\ attempted[w][1] = "Role"

\* C2 (amended): as C2, for objects that carry object metadata; an object
\* that carries none gets an error, still with zero applies.
C2_Gating ==
    \A w \in Workers :
        Finished(w) =>
            IF ~IsMetaObject(obj[w])
            THEN result[w].class = "plain" /\ attempted[w] = <<>> /\ DOMAIN submitted[w] = {}
            ELSE IF NoDiscoveryNeeded(obj[w]) \/ ~KnownVariant(obj[w])
            THEN result[w] = Nil /\ attempted[w] = <<>> /\ DOMAIN submitted[w] = {}
            ELSE attempted[w] # <<>> /\ attempted[w][1] = "Role"

C2_Witness ==
    \E w \in Workers :
        /\ Finished(w)
        /\ NoDiscoveryNeeded(obj[w])
        /\ result[w] = Nil
        /\ \E v \in Workers : Finished(v) /\ ~IsMetaObject(obj[v])

\* C3: two distinct cluster objects of one namespace never write the same
\* resource key, whatever the interleaving of their Reconcile calls.
C3_DisjointKeys ==
    \A w1, w2 \in Workers :
        (/\ w1 # w2
         /\ IsMetaObject(obj[w1]) /\ IsMetaObject(obj[w2])
         /\ Identity(obj[w1]) # Identity(obj[w2])
         /\ obj[w1].namespace = obj[w2].namespace)
        => written[w1] \cap written[w2] = {}

Counterpart(o) ==
    [o EXCEPT !.kind = IF @ = "TidbCluster" THEN "DMCluster" ELSE "TidbCluster"]

\* C4: the name and the instance label derived for a DMCluster named n differ
\* from those derived for the TidbCluster named n; the DMCluster's name is
\* the name function applied to n followed by "-dm", the TidbCluster's is the
\* name function applied to n.
C4_NamingIsolation ==
    bmeta # <<>> =>
        LET other == getDiscoveryMeta(Counterpart(bobj), DiscoveryMemberName)
        IN /\ bmeta[1].meta.name # other.meta.name
           /\ bmeta[1].l["app.kubernetes.io/instance"] # other.l["app.kubernetes.io/instance"]
           /\ bmeta[1].meta.name =
                 (IF bobj.kind = "DMCluster" THEN bobj.name \o "-dm" ELSE bobj.name)
                 \o "-discovery"

C4_Witness == bmeta # <<>> /\ bobj.kind = "DMCluster" /\ bobj.name = "a"

\* C5: the Service handed to the collaborator selects exactly the pod-template
\* labels of the Deployment the collaborator returned, also when these differ
\* from the labels of the Deployment that was submitted.
C5_SelectorFromApplied ==
    \A w \in Workers :
        "Service" \in DOMAIN submitted[w] =>
            /\ deploy[w] # <<>>
            /\ submitted[w]["Service"].spec.selector = deploy[w][1].spec.template.labels

C5_Witness ==
    \E w \in Workers :
        /\ "Service" \in DOMAIN submitted[w]
        /\ deploy[w] # <<>>
        /\ deploy[w][1].spec.template.labels # submitted[w]["Deployment"].spec.template.labels

IsDiscovery(c) == c.name = "discovery"

TLSMount == [name |-> "pd-tls", readOnly |-> TRUE, mountPath |-> "/var/lib/pd-tls"]
TLSEnv == [name |-> "TC_TLS_ENABLED", value |-> "true"]

\* C6: with TLS enabled and a local PD, the container named "discovery" has,
\* compared with the same TidbCluster built with TLS disabled, exactly the
\* read-only mount at /var/lib/pd-tls and the entry TC_TLS_ENABLED=true in
\* addition, the pod has the secret volume in addition and no other container
\* changes; otherwise none of the three is present.
C6_TLSOnDiscoveryContainer ==
    (bdep # <<>> /\ bdep[1].err = "none") =>
        LET ps == bdep[1].d.spec.template.spec
            off == getTidbDiscoveryDeployment([bobj EXCEPT !.tls = FALSE]).d.spec.template.spec
        IN IF bobj.kind = "TidbCluster" /\ bobj.tls /\ bobj.hasPD
           THEN /\ Len(ps.containers) = Len(off.containers)
                /\ \A i \in 1..Len(ps.containers) :
                      IF IsDiscovery(ps.containers[i])
                      THEN /\ ps.containers[i].volumeMounts =
                                 Append(off.containers[i].volumeMounts, TLSMount)
                           /\ ps.containers[i].env = Append(off.containers[i].env, TLSEnv)
                      ELSE ps.containers[i] = off.containers[i]
                /\ Len(ps.volumes) = Len(off.volumes) + 1
                /\ ps.volumes[Len(ps.volumes)].name = "pd-tls"
           ELSE /\ \A i \in 1..Len(ps.containers) :
                      /\ \A j \in 1..Len(ps.containers[i].volumeMounts) :
                            ps.containers[i].volumeMounts[j].mountPath # "/var/lib/pd-tls"
                      /\ \A j \in 1..Len(ps.containers[i].env) :
                            ps.containers[i].env[j].name # "TC_TLS_ENABLED"
                /\ \A j \in 1..Len(ps.volumes) : ps.volumes[j].name # "pd-tls"

C8_Original ==
    \A w \in Workers :
        /\ result[w].class \in {"none", "nil", "requeue"}
        /\ (KnownVariant(obj[w]) /\ ConstructionFails(obj[w])) =>
              /\ Len(attempted[w]) <= 3
              /\ (Finished(w) /\ ~NoDiscoveryNeeded(obj[w])) => result[w].class = "requeue"

\* C8 (amended): every error Reconcile returns for an object that carries
\* object metadata is a requeue error, construction failures included; the
\* one other error is the plain error for an object without metadata, which
\* is returned before anything is built or applied.
C8_Requeue ==
    \A w \in Workers :
        /\ IsMetaObject(obj[w]) => result[w].class \in {"none", "nil", "requeue"}
        /\ ~IsMetaObject(obj[w]) => result[w].class \in {"none", "plain"} /\ attempted[w] = <<>>
        /\ (KnownVariant(obj[w]) /\ ConstructionFails(obj[w])) =>
              /\ Len(attempted[w]) <= 3
              /\ (Finished(w) /\ ~NoDiscoveryNeeded(obj[w])) => result[w].class = "requeue"

C8_Witness ==
    \E w \in Workers :
        /\ Finished(w)
        /\ ConstructionFails(obj[w])
        /\ attempted[w] = <<"Role", "ServiceAccount", "RoleBinding">>
        /\ outcome[w] = <<TRUE, TRUE, TRUE>>
        /\ result[w].class = "requeue"

Converged(w) ==
    /\ result[w] = Nil
    /\ \A k \in KindSet : ExpectedKey(obj[w], k) \in DOMAIN store

NothingDeleted == [][DOMAIN store \subseteq DOMAIN store']_vars

C10_SelectorMatchesTemplate ==
    (bdep # <<>> /\ bdep[1].err = "none") =>
        LET sel == bdep[1].d.spec.selector
            lab == bdep[1].d.spec.template.labels
        IN \A k \in DOMAIN sel : k \in DOMAIN lab /\ lab[k] = sel[k]


====
